---- MODULE Spec2Model ----
(***************************************************************************)
(* Model of lttnganalyses/core/analysis.py: the Analysis windowing engine  *)
(* (range gating, keyed periods, refresh interval) driven by a stream of   *)
(* trace events with non-decreasing timestamps.                            *)
(***************************************************************************)
EXTENDS Integers, Sequences, FiniteSets, TLC

\* ------------------------------------------------------------------ values

\* Python's None where the code holds a timestamp, an index or a duration.
None == -1
\* Python's None where the code holds a tuple or a list (both are falsy).
NoKey == <<>>
\* Python's None where the code holds an event name.
NoName == "None"

\* Bounds of the model.
MaxTs == 3
MaxRanges == 2
RefreshPeriod == 2
MaxResets == 2
MaxRegs == 2

Timestamps == 0..MaxTs

\* Event names: the configured begin marker, the configured end marker and
\* an unrelated event.
BeginName == "begin_ev"
EndName == "end_ev"
OtherName == "other_ev"
EvNames == {BeginName, EndName, OtherName}

\* Event payload: two fields, each absent or holding the string "7" ("s7")
\* or the integer 7 ("i7").
Fields == {"f1", "f2"}
Missing == "missing"
Values == {"s7", "i7"}

\* str(v) as used by tuple(map(str, period_key)).
Str(v) == IF v = "i7" THEN "s7" ELSE v

Events == [timestamp : Timestamps, name : EvNames,
           fields : [Fields -> Values \cup {Missing}]]

\* ------------------------------------------------------------------ TimeRange

TimeRange(b, e) == [begin |-> b, end |-> e]

\* A range with both bounds present has begin <= end.
Ranges ==
    {TimeRange(b, e) : b \in Timestamps \cup {None}, e \in Timestamps \cup {None}}
        \ {r \in [begin : Timestamps, end : Timestamps] : r.begin > r.end}

\* Range lists are handed over sorted and non-overlapping: only the first range
\* may lack its begin bound and only the last may lack its end bound.
SortedRanges(rl) ==
    \A i \in 1..(Len(rl) - 1) :
        /\ rl[i].end # None
        /\ rl[i + 1].begin # None
        /\ rl[i].end <= rl[i + 1].begin

RangeLists ==
    {rl \in UNION {[1..n -> Ranges] : n \in 0..MaxRanges} : SortedRanges(rl)}

\* ------------------------------------------------------------------ AnalysisConfig

KeyFieldLists == {NoKey, <<"f1">>, <<"f2">>}

Confs ==
    [range_ts : RangeLists,
     accumulate : BOOLEAN,
     refresh_period : {None, RefreshPeriod},
     period_begin_ev_name : {NoName, BeginName},
     period_end_ev_name : {NoName, EndName},
     period_begin_key_fields : KeyFieldLists,
     period_end_key_fields : KeyFieldLists,
     period_key_value : {NoKey, <<"s7">>}]

\* No keyed-period option is set.
NoPeriodConf(c) ==
    /\ c.period_begin_ev_name = NoName
    /\ c.period_end_ev_name = NoName
    /\ c.period_begin_key_fields = NoKey
    /\ c.period_end_key_fields = NoKey
    /\ c.period_key_value = NoKey

\* Configurations of the range-gating and refresh modes.
RangeConfs == {c \in Confs : NoPeriodConf(c)}

\* The range lists that gate the keyed-period mode in the model: none, one
\* range, two adjacent ranges, two ranges with a gap.
PeriodRangeLists ==
    {<<>>,
     <<TimeRange(0, 1)>>,
     <<TimeRange(0, 1), TimeRange(2, 3)>>,
     <<TimeRange(1, 1), TimeRange(3, 3)>>}

\* Configurations of the keyed-period mode, alone or gated by a range list.
PeriodConfs ==
    {c \in Confs : /\ c.period_begin_ev_name # NoName
                   /\ c.period_begin_key_fields # NoKey
                   /\ c.refresh_period = None
                   /\ c.range_ts \in PeriodRangeLists}

\* The fields a configuration makes the engine read.
KeyFieldsOf(c) ==
    {c.period_begin_key_fields[i] : i \in 1..Len(c.period_begin_key_fields)}
        \cup {c.period_end_key_fields[i] : i \in 1..Len(c.period_end_key_fields)}

\* The events a producer sends. The engine reads the name only in keyed-period
\* mode and only the configured key fields, so one name and one value stand for
\* all where it reads none.
EventsFor(c) ==
    {e \in Events :
        /\ c.period_begin_ev_name = NoName => e.name = OtherName
        /\ \A f \in Fields \ KeyFieldsOf(c) : e.fields[f] = Missing}

\* ------------------------------------------------------------------ state

VARIABLES
    conf,             \* the AnalysisConfig record (current_ts kept apart)
    current_ts,       \* AnalysisConfig.current_ts
    started,          \* Analysis.started
    ended,            \* Analysis.ended
    period_key,       \* Analysis._period_key
    period_start_ts,  \* Analysis._period_start_ts
    last_event_ts,    \* Analysis._last_event_ts
    op,               \* the last operation called: "init", "process_event", "end"
    ev,               \* the event handed to the last process_event
    calls,            \* reset() calls and tick notifications of the last operation
    raised,           \* the exception the last operation raised, or "none"
    resets,           \* history: reset() calls since construction, up to MaxResets
    window_ts,        \* history: the timestamp at which the current window is
                      \* due to have started (see DueStart)
    cbs,              \* Analysis._cbs: the names that have an event callback
    dispatched,       \* the event callbacks the last operation invoked, in order
    notification_cbs, \* Analysis._notification_cbs: per name, its subscribers
    delivered,        \* the subscriber invocations of the last operation, in order
    tick_regs,        \* history: the subscribers registered under 'tick', in order
    proc,             \* the process handed to the last _filter_process
    passed            \* what the last _filter_process returned

vars == <<conf, current_ts, started, ended, period_key, period_start_ts,
          last_event_ts, op, ev, calls, raised, resets, window_ts,
          cbs, dispatched, notification_cbs, delivered, tick_regs, proc, passed>>

\* The engine's fields as one record, threaded through the methods.
Self ==
    [current_ts |-> current_ts, started |-> started, ended |-> ended,
     period_key |-> period_key, period_start_ts |-> period_start_ts,
     last_event_ts |-> last_event_ts, calls |-> <<>>, raised |-> "none"]

\* Python truthiness of a timestamp: None and 0 are falsy.
Truthy(x) == x # None /\ x # 0

\* ------------------------------------------------------------------ hooks

Tick(b, e) == [kind |-> "tick", begin_ns |-> b, end_ns |-> e]
ResetCall == [kind |-> "reset", begin_ns |-> None, end_ns |-> None]

\* reset(): the concrete analysis clears its accumulators.
reset(s) == [s EXCEPT !.calls = Append(@, ResetCall)]

\* _end_period(): the tick notification with the window's bounds.
end_period(s) ==
    [s EXCEPT !.calls = Append(@, Tick(s.period_start_ts, s.last_event_ts))]

\* _begin_period(period_key, timestamp)
begin_period(s, key, ts) ==
    reset([s EXCEPT !.period_key = key, !.period_start_ts = ts])

\* ------------------------------------------------------------------ range gating

\* The while loop of _check_analysis: from range i (0-based), whose end the
\* timestamp exceeds, step to the next range until one ends at or after ts or
\* the list is exhausted. Comparing ts with an end bound of None raises.
RECURSIVE advance_range(_, _, _)
advance_range(rl, i, ts) ==
    LET j == i + 1 IN
    IF j >= Len(rl) THEN [current_ts |-> j, raised |-> "none"]
    ELSE IF rl[j + 1].end = None THEN [current_ts |-> j, raised |-> "TypeError"]
    ELSE IF ts > rl[j + 1].end THEN advance_range(rl, j, ts)
    ELSE [current_ts |-> j, raised |-> "none"]

\* Faulty variant: the boundary crossing closes the window whatever accumulate says.
closes_window_always(c) == TRUE

\* `if not self._conf.accumulate` of the boundary crossing.
closes_window(c) == ~c.accumulate

\* Faulty variant: every start of the engine opens a window and resets.
opens_first_window_always(s) == TRUE

\* `if self._period_start_ts is None` of the not-started branch.
opens_first_window(s) == s.period_start_ts = None

\* _check_analysis, started branch.
check_started(c, s, e, r) ==
    IF r.end = None THEN s
    ELSE IF e.timestamp > r.end THEN
        LET a == advance_range(c.range_ts, s.current_ts, e.timestamp)
            s2 == [s EXCEPT !.current_ts = a.current_ts]
        IN  IF a.raised # "none" THEN [s2 EXCEPT !.raised = a.raised]
            ELSE
              LET s3 == IF closes_window(c)
                        THEN reset([end_period(s2) EXCEPT !.period_start_ts = None])
                        ELSE s2
              IN  IF a.current_ts >= Len(c.range_ts)
                  THEN [s3 EXCEPT !.ended = TRUE]
                  ELSE IF /\ c.range_ts[a.current_ts + 1].begin # None
                          /\ e.timestamp < c.range_ts[a.current_ts + 1].begin
                  THEN [s3 EXCEPT !.started = FALSE]
                  ELSE IF closes_window(c)
                  THEN [s3 EXCEPT !.period_start_ts = e.timestamp]
                  ELSE s3
    ELSE s

\* _check_analysis, not-started branch.
check_not_started(c, s, e, r) ==
    IF r.begin = None THEN s
    ELSE IF e.timestamp >= r.begin THEN
        LET s2 == [s EXCEPT !.started = TRUE]
        IN  IF opens_first_window(s2)
            THEN reset([s2 EXCEPT !.period_start_ts = e.timestamp])
            ELSE s2
    ELSE s

\* _check_analysis(ev)
check_analysis(c, s, e) ==
    IF c.range_ts = <<>> THEN s
    ELSE
      LET s1 == IF s.current_ts = None THEN [s EXCEPT !.current_ts = 0] ELSE s
      IN  IF s1.current_ts >= Len(c.range_ts)
          THEN [s1 EXCEPT !.raised = "IndexError"]
          ELSE
            LET r == c.range_ts[s1.current_ts + 1]
            IN  IF s1.started THEN check_started(c, s1, e, r)
                ELSE check_not_started(c, s1, e, r)

\* ------------------------------------------------------------------ refresh

\* _check_refresh(ev)
check_refresh(c, s, e) ==
    IF ~Truthy(s.period_start_ts)
    THEN [s EXCEPT !.period_start_ts = e.timestamp]
    ELSE IF e.timestamp >= s.period_start_ts + c.refresh_period
    THEN [end_period(s) EXCEPT !.period_start_ts = e.timestamp]
    ELSE s

\* ------------------------------------------------------------------ keyed periods

\* Faulty variant: a missing field does not stop the extraction.
get_period_event_key_lenient(e, key_fields) ==
    IF key_fields = NoKey THEN NoKey
    ELSE [i \in 1..Len(key_fields) |-> e.fields[key_fields[i]]]

\* _get_period_event_key(ev, key_fields): None for no key fields or a missing
\* field, else the tuple of the fields' values.
get_period_event_key(e, key_fields) ==
    IF key_fields = NoKey THEN NoKey
    ELSE IF \E i \in 1..Len(key_fields) : e.fields[key_fields[i]] = Missing
    THEN NoKey
    ELSE [i \in 1..Len(key_fields) |-> e.fields[key_fields[i]]]

\* Faulty variant: any period event with a key counts as the open period's.
same_period_any(key, s) == TRUE

\* The comparison that decides whether a period event belongs to the open period.
same_period(key, s) == key = s.period_key

\* Faulty variant: a matching begin event opens a period without closing the open one.
rotate_without_close(s, key, ts) == begin_period(s, key, ts)

\* A matching begin event, no end event configured: close, then open again.
rotate(s, key, ts) == begin_period(end_period(s), key, ts)

\* _handle_period_event, a period is open.
handle_open(c, s, e) ==
    LET key == get_period_event_key(e, c.period_end_key_fields)
    IN  IF key = NoKey THEN s
        ELSE IF same_period(key, s) THEN
            IF c.period_end_ev_name # NoName THEN
                IF e.name = c.period_end_ev_name
                THEN [end_period(s) EXCEPT !.period_key = NoKey,
                                           !.period_start_ts = None]
                ELSE s
            ELSE IF e.name = c.period_begin_ev_name
            THEN rotate(s, key, e.timestamp)
            ELSE s
        ELSE s

\* _handle_period_event, no period is open and the event is a begin event.
handle_idle(c, s, e) ==
    LET key == get_period_event_key(e, c.period_begin_key_fields)
    IN  IF key = NoKey THEN s
        ELSE IF /\ c.period_key_value # NoKey
                /\ c.period_key_value # [i \in 1..Len(key) |-> Str(key[i])]
        THEN s
        ELSE begin_period(s, key, e.timestamp)

\* _handle_period_event(ev)
handle_period_event(c, s, e) ==
    IF e.name # c.period_begin_ev_name /\ e.name # c.period_end_ev_name THEN s
    ELSE IF s.period_key # NoKey THEN handle_open(c, s, e)
    ELSE IF e.name = c.period_begin_ev_name THEN handle_idle(c, s, e)
    ELSE s

\* ------------------------------------------------------------------ process_event, end

\* Faulty variant: the implicit window never starts.
implicit_start_never(c, s) == FALSE

\* The implicit all-time window of process_event.
implicit_start(c, s) ==
    /\ s.current_ts = None
    /\ (c.range_ts = <<>> \/ c.range_ts[1].begin = None)

\* Faulty variant: the timestamp is recorded only once the engine is started.
note_event_once_started(s, e) ==
    IF s.started THEN [s EXCEPT !.last_event_ts = e.timestamp] ELSE s

\* The first statement of process_event: the event's timestamp is recorded.
note_event(s, e) == [s EXCEPT !.last_event_ts = e.timestamp]

\* process_event(ev) up to and including the call of _check_analysis.
gate_event(c, s, e) ==
    LET s1 == note_event(s, e)
        s2 == IF implicit_start(c, s1)
              THEN [s1 EXCEPT !.period_start_ts = e.timestamp, !.started = TRUE]
              ELSE s1
    IN  check_analysis(c, s2, e)

\* Faulty variant: the refresh interval takes precedence over the keyed period.
mode_step_refresh_first(c, s, e) ==
    IF c.refresh_period # None THEN check_refresh(c, s, e)
    ELSE IF c.period_begin_ev_name # NoName THEN handle_period_event(c, s, e)
    ELSE s

\* The last step of process_event: the keyed period if configured, else the
\* refresh interval if configured.
mode_step(c, s, e) ==
    IF c.period_begin_ev_name # NoName THEN handle_period_event(c, s, e)
    ELSE IF c.refresh_period # None THEN check_refresh(c, s, e)
    ELSE s

\* process_event(ev)
process_event(c, s, e) ==
    LET s3 == gate_event(c, s, e)
    IN  IF s3.raised # "none" THEN s3
        ELSE IF ~s3.started \/ s3.ended THEN s3
        ELSE mode_step(c, s3, e)

\* end()
end(s) == IF Truthy(s.period_start_ts) THEN end_period(s) ELSE s

\* ------------------------------------------------------------------ event callbacks

\* A Python str as the sequence of its characters, for the names the model
\* dispatches and the prefixes _process_event_cb tests.
Spell(n) ==
    CASE n = "sys_" -> <<"s","y","s","_">>
      [] n = "syscall_entry_" ->
            <<"s","y","s","c","a","l","l","_","e","n","t","r","y","_">>
      [] n = "exit_syscall" -> <<"e","x","i","t","_","s","y","s","c","a","l","l">>
      [] n = "syscall_exit_" ->
            <<"s","y","s","c","a","l","l","_","e","x","i","t","_">>
      [] n = "syscall_entry" ->
            <<"s","y","s","c","a","l","l","_","e","n","t","r","y">>
      [] n = "syscall_exit" -> <<"s","y","s","c","a","l","l","_","e","x","i","t">>
      [] n = "sys_read" -> <<"s","y","s","_","r","e","a","d">>
      [] n = "syscall_entry_read" ->
            <<"s","y","s","c","a","l","l","_","e","n","t","r","y","_","r","e","a","d">>
      [] n = "exit_syscall_read" ->
            <<"e","x","i","t","_","s","y","s","c","a","l","l","_","r","e","a","d">>
      [] n = "syscall_exit_read" ->
            <<"s","y","s","c","a","l","l","_","e","x","i","t","_","r","e","a","d">>
      [] n = "sys" -> <<"s","y","s">>
      [] n = "sched_switch" -> <<"s","c","h","e","d","_","s","w","i","t","c","h">>
      [] n = "other_ev" -> <<"o","t","h","e","r","_","e","v">>
      [] n = "begin_ev" -> <<"b","e","g","i","n","_","e","v">>
      [] n = "end_ev" -> <<"e","n","d","_","e","v">>

\* name.startswith(prefix)
startswith(name, prefix) ==
    LET n == Spell(name)
        q == Spell(prefix)
    IN  Len(n) >= Len(q) /\ SubSeq(n, 1, Len(q)) = q

\* The names an event may carry when it is dispatched.
DispatchNames ==
    {"sys_read", "syscall_entry_read", "exit_syscall", "exit_syscall_read",
     "syscall_exit_read", "syscall_entry", "syscall_exit", "sys",
     "sched_switch", OtherName}

\* The names a concrete analysis registers an event callback under; the
\* callback is identified by the name it is registered under.
CbNames == {"syscall_entry", "syscall_exit", "sys_read", OtherName}

\* _register_cbs(cbs): the registry is replaced.
register_cbs(old, new) == new

\* Faulty variant: the underscore of the 'sys_' prefix is not required.
is_syscall_entry_loose(name) ==
    startswith(name, "sys") \/ startswith(name, "syscall_entry_")

\* The event is a system call entry by its name.
is_syscall_entry(name) ==
    startswith(name, "sys_") \/ startswith(name, "syscall_entry_")

\* The event is a system call exit by its name.
is_syscall_exit(name) ==
    startswith(name, "exit_syscall") \/ startswith(name, "syscall_exit_")

\* _process_event_cb(ev): the callbacks invoked, in order.
process_event_cb(registry, e) ==
    IF e.name \in registry THEN <<e.name>>
    ELSE IF "syscall_entry" \in registry /\ is_syscall_entry(e.name)
    THEN <<"syscall_entry">>
    ELSE IF "syscall_exit" \in registry /\ is_syscall_exit(e.name)
    THEN <<"syscall_exit">>
    ELSE <<>>

\* ------------------------------------------------------------------ notifications

TICK_CB == "tick"

\* Notification names and subscribers. A name that is not a key of
\* _notification_cbs has the empty list: the code appends to a list as soon as
\* it creates it, so a key never holds an empty list.
NotifNames == {TICK_CB, "output_results"}
Subscribers == {"cb1", "cb2"}
NoSubscribers == [n \in NotifNames |-> <<>>]

\* The arguments of register_notification_cbs: a dict from some names to one
\* callback each.
NotifDicts == UNION {[ns -> Subscribers] : ns \in SUBSET NotifNames}

\* Faulty variant: a registration replaces the subscribers of the name.
register_notification_cbs_replace(registry, d) ==
    [n \in NotifNames |-> IF n \in DOMAIN d THEN <<d[n]>> ELSE registry[n]]

\* register_notification_cbs(cbs)
register_notification_cbs(registry, d) ==
    [n \in NotifNames |->
        IF n \in DOMAIN d THEN Append(registry[n], d[n]) ELSE registry[n]]

Delivery(cb, b, e) == [cb |-> cb, begin_ns |-> b, end_ns |-> e]

\* _send_notification_cb(name, begin_ns=b, end_ns=e): the subscriber
\* invocations, in order.
send_notification_cb(registry, name, b, e) ==
    IF registry[name] # <<>>
    THEN [i \in 1..Len(registry[name]) |-> Delivery(registry[name][i], b, e)]
    ELSE <<>>

\* The subscriber invocations of a call log: each tick of the log is sent to
\* the subscribers of TICK_CB by _end_period.
RECURSIVE notify(_, _)
notify(registry, log) ==
    IF log = <<>> THEN <<>>
    ELSE LET c == Head(log)
         IN  (IF c.kind = "tick"
              THEN send_notification_cb(registry, TICK_CB, c.begin_ns, c.end_ns)
              ELSE <<>>) \o notify(registry, Tail(log))

\* ------------------------------------------------------------------ filters

Comms == {"bash", "zsh"}
MaxTid == 3
Tids == 1..MaxTid

\* A process of the traced system, or None.
Procs == [comm : Comms, tid : Tids]
NoProc == [comm |-> NoName, tid |-> None]

\* x in l, for a list l
In(x, l) == \E i \in 1..Len(l) : l[i] = x

\* The --procname and --tid lists of a configuration; NoKey is the unset list
\* and the empty list.
ProcLists == {NoKey, <<"bash">>, <<"zsh">>, <<"bash", "zsh">>}
TidLists ==
    {l \in UNION {[1..n -> Tids] : n \in 0..MaxTid} :
        \A i \in 1..(Len(l) - 1) : l[i] < l[i + 1]}
FilterConfs == [proc_list : ProcLists, tid_list : TidLists]

\* Faulty variant: a process passes as soon as one of the lists admits it.
filter_process_either(c, p) ==
    IF p = NoProc THEN TRUE
    ELSE IF c.proc_list # <<>> /\ In(p.comm, c.proc_list) THEN TRUE
    ELSE IF c.tid_list # <<>> /\ In(p.tid, c.tid_list) THEN TRUE
    ELSE c.proc_list = <<>> /\ c.tid_list = <<>>

\* _filter_process(proc)
filter_process(c, p) ==
    IF p = NoProc THEN TRUE
    ELSE IF c.proc_list # <<>> /\ ~In(p.comm, c.proc_list) THEN FALSE
    ELSE IF c.tid_list # <<>> /\ ~In(p.tid, c.tid_list) THEN FALSE
    ELSE TRUE

\* ------------------------------------------------------------------ specification

NoEvent == [timestamp |-> None, name |-> NoName, fields |-> [f \in Fields |-> Missing]]

\* Analysis.__init__ with a configuration drawn from cs.
InitWith(cs) ==
    /\ conf \in cs
    /\ current_ts = None
    /\ started = FALSE
    /\ ended = FALSE
    /\ period_key = NoKey
    /\ period_start_ts = None
    /\ last_event_ts = None
    /\ op = "init"
    /\ ev = NoEvent
    /\ calls = <<>>
    /\ raised = "none"
    /\ resets = 0
    /\ window_ts = None
    /\ cbs = {}
    /\ dispatched = <<>>
    /\ notification_cbs = NoSubscribers
    /\ delivered = <<>>
    /\ tick_regs = <<>>
    /\ proc = NoProc
    /\ passed = TRUE

\* The number of calls of the given kind in a call log.
Count(log, kind) == Cardinality({i \in 1..Len(log) : log[i].kind = kind})

Min(a, b) == IF a < b THEN a ELSE b

\* _begin_period ran in the keyed-period step that took the gated state g to r.
BeganPeriod(g, r) ==
    /\ Len(r.calls) > Len(g.calls)
    /\ r.calls[Len(r.calls)] = ResetCall

\* The start the open window is due to have after event e: in keyed-period mode
\* the timestamp of the begin event that opened the period (None while idle); in
\* refresh mode without ranges the first event, then each event that lies at
\* least refresh_period after the start; otherwise the first event of the run.
DueStart(c, w, e, g, r) ==
    IF c.period_begin_ev_name # NoName THEN
        IF g.raised = "none" /\ BeganPeriod(g, r) THEN e.timestamp
        ELSE IF r.period_key = NoKey THEN None
        ELSE w
    ELSE IF c.refresh_period # None /\ c.range_ts = <<>> THEN
        IF w = None \/ e.timestamp >= w + c.refresh_period THEN e.timestamp ELSE w
    ELSE IF w = None THEN e.timestamp
    ELSE w

Store(s) ==
    /\ resets' = Min(resets + Count(s.calls, "reset"), MaxResets)
    /\ current_ts' = s.current_ts
    /\ started' = s.started
    /\ ended' = s.ended
    /\ period_key' = s.period_key
    /\ period_start_ts' = s.period_start_ts
    /\ last_event_ts' = s.last_event_ts
    /\ calls' = s.calls
    /\ raised' = s.raised
    /\ delivered' = notify(notification_cbs, s.calls)
    \* neither process_event nor end calls _process_event_cb
    /\ dispatched' = <<>>
    /\ UNCHANGED <<cbs, notification_cbs, tick_regs, proc, passed>>

\* The producer hands over one event; timestamps never decrease.
ProcessEvent ==
    /\ op # "end"
    /\ \E e \in EventsFor(conf) :
        /\ e.timestamp >= last_event_ts
        /\ ev' = e
        /\ LET g == gate_event(conf, Self, e)
               r == process_event(conf, Self, e)
           IN  /\ Store(r)
               /\ window_ts' = DueStart(conf, window_ts, e, g, r)
    /\ op' = "process_event"
    /\ UNCHANGED conf

\* The producer finalizes the run, once, after the last event.
End ==
    /\ op # "end"
    /\ Store(end(Self))
    /\ op' = "end"
    /\ UNCHANGED <<conf, ev, window_ts>>

Next == ProcessEvent \/ End

Init == InitWith(RangeConfs)
Spec == Init /\ [][Next]_vars

InitPeriod == InitWith(PeriodConfs)
SpecPeriod == InitPeriod /\ [][Next]_vars

\* Precedence of the modes: a refresh interval configured together with a
\* keyed period or alone, without a range list or gated by one.
PrecedenceRangeLists == PeriodRangeLists \cup {<<TimeRange(1, MaxTs)>>}
PrecedenceConfs ==
    {c \in Confs : /\ c.refresh_period # None
                   /\ c.range_ts \in PrecedenceRangeLists
                   /\ \/ NoPeriodConf(c)
                      \/ /\ c.period_begin_ev_name # NoName
                         /\ c.period_begin_key_fields = <<"f1">>
                         /\ c.period_end_key_fields \in {NoKey, <<"f1">>}
                         /\ c.period_key_value = NoKey}

InitPrecedence == InitWith(PrecedenceConfs)
SpecPrecedence == InitPrecedence /\ [][Next]_vars

\* The process filter: a configuration with its two lists, and the processes
\* a concrete analysis asks about.
FilterProcess ==
    /\ \E p \in Procs \cup {NoProc} :
        /\ proc' = p
        /\ passed' = filter_process(conf, p)
    /\ op' = "filter_process"
    /\ UNCHANGED <<conf, current_ts, started, ended, period_key, period_start_ts,
                   last_event_ts, ev, calls, raised, resets, window_ts,
                   cbs, dispatched, notification_cbs, delivered, tick_regs>>

InitFilter == InitWith(FilterConfs)
NextFilter == FilterProcess
SpecFilter == InitFilter /\ [][NextFilter]_vars

\* The fields of the engine proper, which the registries and filters leave alone.
engine == <<conf, current_ts, started, ended, period_key, period_start_ts,
            last_event_ts, resets, window_ts>>

\* The operation calls no hook, notifies nobody and raises nothing.
Quiet ==
    /\ calls' = <<>>
    /\ delivered' = <<>>
    /\ raised' = "none"

\* A concrete analysis registers its event callbacks.
RegisterCbs ==
    /\ op # "end"
    /\ \E new \in SUBSET CbNames : cbs' = register_cbs(cbs, new)
    /\ op' = "register_cbs"
    /\ dispatched' = <<>>
    /\ Quiet
    /\ UNCHANGED <<engine, ev, notification_cbs, tick_regs, proc, passed>>

\* _process_event_cb is handed an event.
ProcessEventCb ==
    /\ op # "end"
    /\ \E n \in DispatchNames :
        /\ ev' = [NoEvent EXCEPT !.name = n]
        /\ dispatched' = process_event_cb(cbs, ev')
    /\ op' = "process_event_cb"
    /\ Quiet
    /\ UNCHANGED <<engine, cbs, notification_cbs, tick_regs, proc, passed>>

\* Event dispatch: the engine without a range list or gated by one range, the
\* registry of event callbacks, and the events of the producer.
DispatchConfs ==
    {c \in RangeConfs : /\ c.range_ts \in {<<>>, <<TimeRange(1, 2)>>}
                        /\ ~c.accumulate
                        /\ c.refresh_period = None}

InitDispatch == InitWith(DispatchConfs)
NextDispatch == RegisterCbs \/ ProcessEventCb \/ ProcessEvent
SpecDispatch == InitDispatch /\ [][NextDispatch]_vars

\* The output side subscribes to notifications: one call of
\* register_notification_cbs with a dict of at most one callback per name. No
\* list grows beyond MaxRegs subscribers.
RegisterNotificationCbs ==
    /\ op # "end"
    /\ \E d \in NotifDicts :
        /\ \A n \in DOMAIN d : Len(notification_cbs[n]) < MaxRegs
        /\ notification_cbs' = register_notification_cbs(notification_cbs, d)
        /\ tick_regs' = IF TICK_CB \in DOMAIN d
                        THEN Append(tick_regs, d[TICK_CB])
                        ELSE tick_regs
    /\ op' = "register_notification_cbs"
    /\ dispatched' = <<>>
    /\ Quiet
    /\ UNCHANGED <<engine, ev, cbs, proc, passed>>

\* Notifications: the engine without a range list or gated by two ranges,
\* and the subscribers of the notifications.
NotifyConfs ==
    {c \in RangeConfs : /\ c.range_ts \in {<<>>, <<TimeRange(0, 1), TimeRange(2, 3)>>}
                        /\ ~c.accumulate
                        /\ c.refresh_period = None}

InitNotify == InitWith(NotifyConfs)
NextNotify == RegisterNotificationCbs \/ ProcessEvent \/ End
SpecNotify == InitNotify /\ [][NextNotify]_vars

\* ------------------------------------------------------------------ observations

Ticks(log) == Count(log, "tick")
Resets(log) == Count(log, "reset")

\* The kinds of the calls of a log, in order.
Kinds(log) == [i \in 1..Len(log) |-> log[i].kind]

\* Every configured range has both bounds.
BoundedRanges(c) ==
    /\ c.range_ts # <<>>
    /\ \A i \in 1..Len(c.range_ts) :
        c.range_ts[i].begin # None /\ c.range_ts[i].end # None

InRange(r, ts) == r.begin <= ts /\ ts <= r.end

\* Only range gating (and possibly refresh) is configured: no keyed-period mode.
NoPeriodMode == conf.period_begin_ev_name = NoName

\* The engine is started inside a range that has an end bound, and ts is past it.
CrossesEnd(ts) ==
    /\ conf.range_ts # <<>>
    /\ started
    /\ current_ts # None
    /\ current_ts < Len(conf.range_ts)
    /\ conf.range_ts[current_ts + 1].end # None
    /\ ts > conf.range_ts[current_ts + 1].end

\* ------------------------------------------------------------------ C1

\* C1 (as claimed): with bounded, sorted, non-overlapping ranges, after
\* process_event(e) the engine is started and not ended exactly when e.timestamp
\* lies inside some range; it is not started before the first range and in a
\* gap, and ended past the last range.
C1_RangeGating ==
    (op = "process_event" /\ BoundedRanges(conf)) =>
        LET ts == ev.timestamp
            rl == conf.range_ts
            inside == \E i \in 1..Len(rl) : InRange(rl[i], ts)
        IN  /\ (started /\ ~ended) <=> inside
            /\ (ts > rl[Len(rl)].end) => ended
            /\ (~inside /\ ts < rl[Len(rl)].end) => ~started

\* ------------------------------------------------------------------ C2

\* C2 (as claimed): once ended, every later process_event is a dropped event: no
\* error, no tick, no reset, and started, ended, current_ts, period_key and
\* period_start_ts keep their values; only last_event_ts is updated.
C2_EndedTerminal ==
    [][(ended /\ op' = "process_event") =>
         /\ raised' = "none"
         /\ calls' = <<>>
         /\ ended'
         /\ last_event_ts' = ev'.timestamp
         /\ UNCHANGED <<started, current_ts, period_key, period_start_ts>>]_vars

\* ------------------------------------------------------------------ C3

\* C3 (as claimed): without accumulate, an event processed while started whose
\* timestamp is past the current range's end fires exactly one tick and then
\* exactly one reset, however many ranges it skips.
C3_OneTickThenReset ==
    [][(op' = "process_event" /\ ~conf.accumulate /\ CrossesEnd(ev'.timestamp)) =>
         /\ raised' = "none"
         /\ calls' = <<Tick(period_start_ts, ev'.timestamp), ResetCall>>]_vars

\* ------------------------------------------------------------------ C4

\* C4: with accumulate set and no keyed-period mode, reset is called at most
\* once in a run, and only by the event that opens the very first window (no
\* window was open before it and it starts the engine); entering a later range
\* calls no reset.
C4_AccumulateResetOnce ==
    [][(conf.accumulate /\ NoPeriodMode /\ op' \in {"process_event", "end"}) =>
         /\ resets' <= 1
         /\ Resets(calls') <= 1
         /\ Resets(calls') = 1 =>
              /\ resets = 0
              /\ period_start_ts = None
              /\ ~started /\ started'
              /\ period_start_ts' = ev'.timestamp]_vars

\* The engine is started in the second range after exactly one reset.
C4_Witness ==
    /\ conf.accumulate /\ NoPeriodMode
    /\ op = "process_event" /\ raised = "none"
    /\ current_ts = 1 /\ started /\ ~ended
    /\ resets = 1 /\ calls = <<>>

\* ------------------------------------------------------------------ C5

OpenWithEndName ==
    /\ conf.period_begin_ev_name # NoName
    /\ conf.period_end_ev_name # NoName
    /\ period_key # NoKey

\* e is an end event whose key, taken from period_end_key_fields, is the open key.
ClosingEvent(e) ==
    /\ e.name = conf.period_end_ev_name
    /\ get_period_event_key(e, conf.period_end_key_fields) = period_key

\* What the range-gating step of process_event(e) sends before the keyed-period
\* step runs: the tick and reset of a boundary crossing without accumulate, or
\* the reset of a range entered with no window open.
GatingCalls(e) == gate_event(conf, Self, e).calls

\* The event passes range gating: no error, started and not ended after it.
Gated(e) ==
    LET g == gate_event(conf, Self, e)
    IN  g.raised = "none" /\ g.started /\ ~g.ended

\* C6 (as claimed): an open period with key K is closed (one tick, period_key
\* and period_start_ts cleared) only by an end event with key K; every other
\* event leaves period_key equal to K and fires no tick.
C6_ClosedOnlyByMatchingEnd ==
    [][(OpenWithEndName /\ op' = "process_event") =>
         /\ ~ClosingEvent(ev') => (period_key' = period_key /\ Ticks(calls') = 0)
         /\ period_key' # period_key =>
              /\ ClosingEvent(ev')
              /\ Ticks(calls') = 1
              /\ period_key' = NoKey
              /\ period_start_ts' = None]_vars

\* C6 (amended): as claimed for the keyed-period step: only an end event with
\* key K closes the period, with one tick of that step, and on every other event
\* period_key stays K and that step fires no tick. With no range list the event
\* sends nothing else; with one, the range-gating step's own calls come first.
C6_ClosedOnlyByMatchingEndGated ==
    [][(OpenWithEndName /\ op' = "process_event") =>
         LET gating == GatingCalls(ev')
         IN  /\ conf.range_ts = <<>> => gating = <<>>
             /\ ~ClosingEvent(ev') =>
                  (period_key' = period_key /\ calls' = gating)
             /\ period_key' # period_key =>
                  /\ ClosingEvent(ev')
                  /\ Len(calls') = Len(gating) + 1
                  /\ SubSeq(calls', 1, Len(gating)) = gating
                  /\ calls'[Len(calls')].kind = "tick"
                  /\ period_key' = NoKey
                  /\ period_start_ts' = None]_vars

\* An end event closed the open period of an ungated keyed run.
C6_Witness ==
    /\ conf.period_end_ev_name # NoName /\ conf.range_ts = <<>>
    /\ op = "process_event" /\ ev.name = EndName
    /\ period_key = NoKey /\ period_start_ts = None
    /\ Kinds(calls) = <<"tick">>

\* ------------------------------------------------------------------ C7

\* A keyed period is open, no end-event name is configured, and e is a begin
\* event whose key, taken from period_end_key_fields, is the open key.
RotatingEvent(e) ==
    /\ conf.period_begin_ev_name # NoName
    /\ conf.period_end_ev_name = NoName
    /\ period_key # NoKey
    /\ e.name = conf.period_begin_ev_name
    /\ get_period_event_key(e, conf.period_end_key_fields) = period_key

\* C7 (as claimed): with no end-event name, a begin event carrying the open key
\* K produces exactly one tick followed by exactly one begin_period: period_key
\* stays K, period_start_ts becomes the event's timestamp, one reset.
C7_Rotation ==
    [][(op' = "process_event" /\ RotatingEvent(ev')) =>
         /\ Kinds(calls') = <<"tick", "reset">>
         /\ period_key' = period_key
         /\ period_start_ts' = ev'.timestamp]_vars

\* C7 (amended): the same for a begin event that passes range gating: the
\* keyed-period step produces exactly one tick followed by one begin_period.
\* With no range list every event passes and sends nothing else; with one, the
\* range-gating step's own calls come first.
C7_RotationGated ==
    [][(op' = "process_event" /\ RotatingEvent(ev')) =>
         LET gating == GatingCalls(ev')
         IN  /\ conf.range_ts = <<>> => (Gated(ev') /\ gating = <<>>)
             /\ Gated(ev') =>
                  /\ Len(calls') = Len(gating) + 2
                  /\ SubSeq(calls', 1, Len(gating)) = gating
                  /\ calls'[Len(calls') - 1].kind = "tick"
                  /\ calls'[Len(calls') - 1].end_ns = ev'.timestamp
                  /\ calls'[Len(calls')] = ResetCall
                  /\ period_key' = period_key
                  /\ period_start_ts' = ev'.timestamp]_vars

\* A begin event rotated the open period of an ungated keyed run.
C7_Witness ==
    /\ conf.period_begin_ev_name # NoName /\ conf.period_end_ev_name = NoName
    /\ conf.range_ts = <<>>
    /\ op = "process_event" /\ ev.name = BeginName
    /\ period_key # NoKey /\ period_start_ts = ev.timestamp
    /\ Kinds(calls) = <<"tick", "reset">>

\* ------------------------------------------------------------------ C8

\* Refresh mode alone: no keyed-period mode, no range list.
RefreshOnly ==
    /\ conf.refresh_period # None
    /\ conf.period_begin_ev_name = NoName
    /\ conf.range_ts = <<>>

\* C8 (as claimed): in refresh mode a tick fires on an event exactly when its
\* timestamp is at least refresh_period after the start of the current window,
\* the first event or the event of the previous tick.
C8_RefreshTicks ==
    [][(RefreshOnly /\ op' = "process_event") =>
         (Ticks(calls') = 1 <=>
            (window_ts # None /\ ev'.timestamp >= window_ts + conf.refresh_period))]_vars

\* ------------------------------------------------------------------ C9

\* C9 (as claimed): a tick carries as begin_ns the timestamp of the event that
\* opened the window: the begin event of the period in keyed-period mode, the
\* first event of the run for the tick of end() with no mode configured.
C9_TickBeginIsWindowStart ==
    [][(conf.range_ts = <<>> /\ conf.refresh_period = None) =>
         \A i \in 1..Len(calls') :
            calls'[i].kind = "tick" => calls'[i].begin_ns = window_ts]_vars

\* ------------------------------------------------------------------ C10

\* C10 (as claimed): end() fires exactly one tick when a window is open
\* (period_start_ts is set, whatever its value) and none otherwise.
C10_EndClosesOpenWindow ==
    op = "end" =>
        calls = IF period_start_ts # None
                THEN <<Tick(period_start_ts, last_event_ts)>>
                ELSE <<>>

\* No range list, no keyed period, no refresh interval.
AllTimeMode ==
    /\ conf.range_ts = <<>>
    /\ conf.refresh_period = None
    /\ NoPeriodMode

\* C11: with no range list, no keyed period and no refresh interval, after
\* every process_event the engine is started and not ended, and the call has
\* raised nothing and sent no tick; only end() sends one.
C11_AllTimeWindow ==
    (AllTimeMode /\ op = "process_event") =>
        /\ started
        /\ ~ended
        /\ raised = "none"
        /\ Ticks(calls) = 0

\* A second or later event of an all-time run, after the first one's timestamp.
C11_Witness ==
    /\ AllTimeMode
    /\ op = "process_event"
    /\ window_ts # None
    /\ window_ts < last_event_ts
    /\ started

\* C12: a process_event that returns normally with the engine started and not
\* ended has invoked the callback that matches the event, once; one that
\* leaves the engine not started or ended has invoked no callback.
C12_DispatchOnce ==
    (op = "process_event" /\ raised = "none") =>
        dispatched = IF started /\ ~ended THEN process_event_cb(cbs, ev) ELSE <<>>

\* The names of DispatchNames that begin with 'sys_' or 'syscall_entry_', and
\* those that begin with 'exit_syscall' or 'syscall_exit_'.
EntryNames == {"sys_read", "syscall_entry_read"}
ExitNames == {"exit_syscall", "exit_syscall_read", "syscall_exit_read"}

\* C13: the callback lookup invokes at most one callback: the one registered
\* under the exact event name if any; else the syscall_entry callback, if
\* registered, for a name beginning with 'sys_' or 'syscall_entry_'; else the
\* syscall_exit callback, if registered, for a name beginning with
\* 'exit_syscall' or 'syscall_exit_'; else none.
C13_CallbackLookup ==
    op = "process_event_cb" =>
        /\ Len(dispatched) <= 1
        /\ dispatched =
            CASE ev.name \in cbs -> <<ev.name>>
              [] ev.name \notin cbs /\ ev.name \in EntryNames
                    /\ "syscall_entry" \in cbs -> <<"syscall_entry">>
              [] ev.name \notin cbs /\ ev.name \in ExitNames
                    /\ "syscall_exit" \in cbs -> <<"syscall_exit">>
              [] OTHER -> <<>>

\* An exact match wins over the syscall_entry fallback.
C13_Witness ==
    /\ op = "process_event_cb"
    /\ ev.name = "sys_read"
    /\ {"sys_read", "syscall_entry", "syscall_exit"} \subseteq cbs
    /\ dispatched = <<"sys_read">>

\* The event lacks one of the given key fields.
LacksField(e, key_fields) ==
    \E i \in 1..Len(key_fields) : e.fields[key_fields[i]] = Missing

\* In the current state e is a period event that lacks a field of the key it
\* is read for: a begin event while idle (begin key fields), a begin or end
\* event while a period is open (end key fields).
MissingKeyEvent(e) ==
    /\ conf.period_begin_ev_name # NoName
    /\ IF period_key = NoKey
       THEN /\ e.name = conf.period_begin_ev_name
            /\ LacksField(e, conf.period_begin_key_fields)
       ELSE /\ e.name \in {conf.period_begin_ev_name, conf.period_end_ev_name}
            /\ LacksField(e, conf.period_end_key_fields)

PeriodClosingEvent(e) ==
    (OpenWithEndName /\ ClosingEvent(e)) \/ RotatingEvent(e)

\* C15: with a keyed period and a refresh interval both configured the refresh
\* step never runs: beyond what range gating sends, an event sends a tick only
\* as the closing event of the open period, whatever time has elapsed. Range
\* gating comes before both: an event that leaves the engine not started or
\* ended opens and closes no keyed period and sends no tick of the refresh
\* step (nothing beyond what range gating sends).
C15_Precedence ==
    [][(conf.refresh_period # None /\ op' = "process_event") =>
         LET g == gate_event(conf, Self, ev')
         IN  /\ (~NoPeriodMode /\ ~PeriodClosingEvent(ev')) =>
                    Ticks(calls') = Ticks(g.calls)
             /\ ~Gated(ev') =>
                    /\ period_key' = period_key
                    /\ calls' = g.calls
                    /\ period_start_ts' = g.period_start_ts]_vars

\* Both modes configured, the event passed range gating at least
\* refresh_period after the window start, and no tick was sent.
C15_Witness ==
    /\ op = "process_event"
    /\ conf.refresh_period # None
    /\ conf.period_begin_ev_name # NoName
    /\ raised = "none" /\ started /\ ~ended
    /\ period_start_ts # None
    /\ last_event_ts >= period_start_ts + conf.refresh_period
    /\ Ticks(calls) = 0

\* C16: after every process_event, whether the event was processed or dropped
\* or the call raised, last_event_ts is the event's timestamp; every tick, of
\* process_event or of end(), carries last_event_ts as end_ns.
C16_LastEventTs ==
    /\ op = "process_event" => last_event_ts = ev.timestamp
    /\ \A i \in 1..Len(calls) :
          calls[i].kind = "tick" => calls[i].end_ns = last_event_ts

\* The event crossed the end of the last range: it closed the window with a
\* tick and was dropped.
C16_Witness ==
    /\ op = "process_event"
    /\ ended
    /\ Ticks(calls) = 1
    /\ calls[1].begin_ns < calls[1].end_ns
    /\ calls[1].end_ns = ev.timestamp

\* The elements of a list.
Elems(l) == {l[i] : i \in 1..Len(l)}

\* C17: the process filter returns true when no process is given; otherwise
\* it returns true exactly when the process's comm passes proc_list and its tid
\* passes tid_list, an unset or empty list admitting everything. With
\* proc_list = ["bash"] and no tid_list, exactly the processes named bash pass.
C17_FilterProcess ==
    op = "filter_process" =>
        /\ proc = NoProc => passed
        /\ proc # NoProc =>
              (passed <=>
                 /\ (conf.proc_list = <<>> \/ proc.comm \in Elems(conf.proc_list))
                 /\ (conf.tid_list = <<>> \/ proc.tid \in Elems(conf.tid_list)))
        /\ (proc # NoProc /\ conf.proc_list = <<"bash">> /\ conf.tid_list = <<>>) =>
              (passed <=> proc.comm = "bash")

\* A process whose comm is listed and whose tid is not is rejected.
C17_Witness ==
    /\ op = "filter_process"
    /\ proc # NoProc
    /\ conf.proc_list = <<"bash">>
    /\ proc.comm = "bash"
    /\ conf.tid_list # <<>>
    /\ proc.tid \notin Elems(conf.tid_list)
    /\ ~passed

\* The engine is started, ts is past the end of the current range, and the
\* advance reaches range j (1-based), which has no end bound, every range
\* between having ended before ts.
LandsOnOpenEnded(ts, j) ==
    /\ CrossesEnd(ts)
    /\ j \in (current_ts + 2)..Len(conf.range_ts)
    /\ conf.range_ts[j].end = None
    /\ \A k \in (current_ts + 2)..(j - 1) : conf.range_ts[k].end < ts

\* The engine is started inside a range that has no end bound.
InOpenEnded ==
    /\ conf.range_ts # <<>>
    /\ started /\ ~ended
    /\ current_ts # None
    /\ current_ts < Len(conf.range_ts)
    /\ conf.range_ts[current_ts + 1].end = None

\* C18 (as claimed): an event that advances the engine onto a following range
\* without end bound stops the advance at that range and raises no error; an
\* engine started inside a range without end bound stays started, never
\* becomes ended and sends no range tick on any event.
C18_OpenEndedRange ==
    [][op' = "process_event" =>
         /\ \A j \in 1..Len(conf.range_ts) :
               LandsOnOpenEnded(ev'.timestamp, j) =>
                  /\ raised' = "none"
                  /\ current_ts' = j - 1
                  /\ ~ended'
         /\ InOpenEnded =>
               /\ raised' = "none"
               /\ started' /\ ~ended'
               /\ conf.refresh_period = None => Ticks(calls') = 0]_vars

\* The ticks of the last operation, in order.
TicksSent ==
    LET IsTick(c) == c.kind = "tick"
    IN  SelectSeq(calls, IsTick)

\* Every tick of the last operation handed once to every subscriber registered
\* under 'tick', in registration order, tick after tick.
TickDeliveries ==
    LET n == Len(tick_regs)
    IN  IF n = 0 \/ TicksSent = <<>> THEN <<>>
        ELSE [k \in 1..(Len(TicksSent) * n) |->
                Delivery(tick_regs[((k - 1) % n) + 1],
                         TicksSent[((k - 1) \div n) + 1].begin_ns,
                         TicksSent[((k - 1) \div n) + 1].end_ns)]

\* C19: registration is additive: whatever register_notification_cbs calls
\* were made, each tick invokes every callback registered under 'tick' once, in
\* registration order, with the tick's begin_ns and end_ns, and invokes no
\* callback registered under another name only.
C19_AdditiveRegistration ==
    delivered = TickDeliveries

\* Two registrations under 'tick', one under another name, and a tick.
C19_Witness ==
    /\ Len(tick_regs) = 2
    /\ tick_regs[1] # tick_regs[2]
    /\ notification_cbs["output_results"] # <<>>
    /\ Len(TicksSent) = 1
    /\ Len(delivered) = 2

\* C20 (as claimed): a tick is sent only for an open window: every tick
\* carries a begin_ns that is set and at most its end_ns, in every combination
\* of modes, range gating with a keyed period included.
C20_TickForOpenWindow ==
    \A i \in 1..Len(calls) :
        calls[i].kind = "tick" =>
            /\ calls[i].begin_ns # None
            /\ calls[i].begin_ns <= calls[i].end_ns
====
